---- MODULE Spec2Model ----
(***************************************************************************)
(* A model of conda_rich/hooks.py: the quiet and the interactive progress  *)
(* bar, and the renderer's detail_view, envs_list and progress_bar.        *)
(*                                                                         *)
(* Text is modelled character by character: a Python str is a tuple of     *)
(* one-character strings, so that padding, joining and splitting are       *)
(* computed and not assumed.                                               *)
(***************************************************************************)
EXTENDS Integers, Sequences, FiniteSets, TLC

VARIABLES
    call,      \* the renderer call the host makes (detail_view / envs_list)
    ret,       \* what that call returned or raised
    quiet,     \* context.quiet
    progs,     \* the rich Progress objects: for each, its tasks by TaskID
    sink,      \* the writes made to the output sink, in order
    bars,      \* the progress bars constructed so far
    lastOp     \* the last progress-bar operation and its outcome

vars == <<call, ret, quiet, progs, sink, bars, lastOp>>

(***************************************************************************)
(* Bounds of the model.                                                    *)
(***************************************************************************)
MaxEnvs == 2      \* longest list of prefixes passed to envs_list
MaxKeys == 2      \* most keys of a details mapping
MaxBars == 2      \* most progress bars constructed in one behaviour
MaxCMs == 2       \* longest list of progress context managers

(***************************************************************************)
(* Text helpers.                                                           *)
(***************************************************************************)
NL == "\n"

Max(a, b) == IF a >= b THEN a ELSE b

Spaces(n) == [i \in 1..n |-> " "]

\* format(s, "<w>"): a str is left-aligned in a field of at least w
LJust(s, w) == s \o Spaces(Max(0, w - Len(s)))

\* format(s, ">w")
RJust(s, w) == Spaces(Max(0, w - Len(s))) \o s

\* sep.join(parts)
RECURSIVE Join(_, _)
Join(sep, parts) ==
    IF Len(parts) = 0 THEN <<>>
    ELSE IF Len(parts) = 1 THEN parts[1]
    ELSE parts[1] \o sep \o Join(sep, Tail(parts))

\* s.split(c) for a one-character separator
RECURSIVE Split(_, _)
Split(s, c) ==
    IF \A i \in 1..Len(s) : s[i] # c THEN <<s>>
    ELSE LET i == CHOOSE j \in 1..Len(s) :
                    s[j] = c /\ \A k \in 1..(j - 1) : s[k] # c
         IN  <<SubSeq(s, 1, i - 1)>> \o Split(SubSeq(s, i + 1, Len(s)), c)

Digit(d) == <<"0", "1", "2", "3", "4", "5", "6", "7", "8", "9">>[d + 1]

\* str(n) of an int
RECURSIVE NatToStr(_)
NatToStr(n) == IF n < 10 THEN <<Digit(n)>>
               ELSE NatToStr(n \div 10) \o <<Digit(n % 10)>>

IntToStr(n) == IF n < 0 THEN <<"-">> \o NatToStr(-n) ELSE NatToStr(n)

\* the values of a details mapping: str | int | bool
StrVal(s) == [type |-> "str", s |-> s, n |-> 0, b |-> FALSE]
IntVal(n) == [type |-> "int", s |-> <<>>, n |-> n, b |-> FALSE]
BoolVal(b) == [type |-> "bool", s |-> <<>>, n |-> 0, b |-> b]

\* format(value, "") inside the f-string
FormatValue(v) ==
    CASE v.type = "str" -> v.s
      [] v.type = "int" -> IntToStr(v.n)
      [] v.type = "bool" -> IF v.b THEN <<"T", "r", "u", "e">>
                            ELSE <<"F", "a", "l", "s", "e">>

(***************************************************************************)
(* os.path on POSIX, conda.common.path.paths_equal                         *)
(***************************************************************************)
\* the host process's working directory
Cwd == <<"/", "e">>

\* p.rfind("/") + 1
RFindSep(p) ==
    IF \E i \in 1..Len(p) : p[i] = "/"
    THEN CHOOSE i \in 1..Len(p) : p[i] = "/" /\ \A k \in (i + 1)..Len(p) : p[k] # "/"
    ELSE 0

RECURSIVE RStripSep(_)
RStripSep(p) ==
    IF Len(p) > 0 /\ p[Len(p)] = "/" THEN RStripSep(SubSeq(p, 1, Len(p) - 1)) ELSE p

dirname(p) ==
    LET head == SubSeq(p, 1, RFindSep(p))
    IN  IF Len(head) > 0 /\ \E i \in 1..Len(head) : head[i] # "/"
        THEN RStripSep(head)
        ELSE head

basename(p) == SubSeq(p, RFindSep(p) + 1, Len(p))

RECURSIVE NormComps(_, _, _)
NormComps(comps, acc, rooted) ==
    IF Len(comps) = 0 THEN acc
    ELSE LET c == comps[1]
             rest == Tail(comps)
         IN  IF c = <<>> \/ c = <<".">> THEN NormComps(rest, acc, rooted)
             ELSE IF c # <<".", ".">>
                     \/ (~rooted /\ Len(acc) = 0)
                     \/ (Len(acc) > 0 /\ acc[Len(acc)] = <<".", ".">>)
                  THEN NormComps(rest, Append(acc, c), rooted)
             ELSE IF Len(acc) > 0
                  THEN NormComps(rest, SubSeq(acc, 1, Len(acc) - 1), rooted)
             ELSE NormComps(rest, acc, rooted)

normpath(p) ==
    IF Len(p) = 0 THEN <<".">>
    ELSE LET initial == IF p[1] # "/" THEN 0
                        ELSE IF Len(p) >= 2 /\ p[2] = "/" /\ ~(Len(p) >= 3 /\ p[3] = "/")
                             THEN 2
                        ELSE 1
             body == Join(<<"/">>, NormComps(Split(p, "/"), <<>>, initial > 0))
             path == [i \in 1..initial |-> "/"] \o body
         IN  IF Len(path) = 0 THEN <<".">> ELSE path

abspath(p) ==
    IF Len(p) > 0 /\ p[1] = "/" THEN normpath(p)
    ELSE normpath(IF Cwd[Len(Cwd)] = "/" THEN Cwd \o p ELSE Cwd \o <<"/">> \o p)

paths_equal(path1, path2) == abspath(path1) = abspath(path2)

(***************************************************************************)
(* The host's state read by the renderer: conda.base.context.context and   *)
(* conda.base.constants.ROOT_ENV_NAME.                                     *)
(***************************************************************************)
ROOT_ENV_NAME == <<"b", "a", "s", "e">>

\* context.active_prefix is a str or None
NoPrefix == [isNone |-> TRUE, path |-> <<>>]
SomePrefix(p) == [isNone |-> FALSE, path |-> p]

\* the prefixes the host lists
PrefixPool ==
    { <<"/", "r">>,                      \* /r
      <<"/", "e", "/", "a">>,            \* /e/a
      <<"/", "e", "/", "b">>,            \* /e/b
      <<"/", "e", "/", "a", "/">>,       \* /e/a/
      <<"/", "x", "/", "a">>,            \* /x/a
      <<"a">> }                          \* a, relative to the working directory

\* context.root_prefix: outside and inside an environments directory
RootPool == { <<"/", "r">>, <<"/", "e", "/", "b">> }

\* context.envs_dirs, a tuple of directories
EnvsDirsPool ==
    { <<>>,
      << <<"/", "e">> >>,
      << <<"/", "e", "/">> >>,
      << <<"/", "x">>, <<"/", "/", "e">> >>,
      << <<"/", "x">>, <<"/", "e">> >>,
      << <<"/">> >> }

Contexts ==
    [active_prefix : {NoPrefix} \cup {SomePrefix(p) : p \in PrefixPool},
     root_prefix : RootPool,
     envs_dirs : EnvsDirsPool]

NoContext == [active_prefix |-> NoPrefix, root_prefix |-> <<>>, envs_dirs |-> <<>>]

\* the sequences over S of length at most n
SeqsUpTo(S, n) == UNION {[1..k -> S] : k \in 0..n}

(***************************************************************************)
(* RichReporterRenderer.detail_view                                        *)
(***************************************************************************)
KeyPool ==
    { <<>>, <<"a">>, <<"b", "c">>, <<"n", NL, "m">> }

ValuePool ==
    { StrVal(<<"x">>), StrVal(<<>>), StrVal(<<"u", NL, " ", "v">>),
      IntVal(10), BoolVal(TRUE) }

\* a dict: its items in insertion order, the keys distinct
DetailsPool ==
    { d \in SeqsUpTo([key : KeyPool, value : ValuePool], MaxKeys) :
        \A i, j \in 1..Len(d) : i # j => d[i].key # d[j].key }

Returned(s) == [kind |-> "return", exc |-> "", val |-> s]
Raised(e) == [kind |-> "raise", exc |-> e, val |-> <<>>]
NoRet == [kind |-> "none", exc |-> "", val |-> <<>>]

\* max(map(len, data.keys())), of a non-empty dict
longest_header(data) ==
    CHOOSE n \in {Len(data[i].key) : i \in 1..Len(data)} :
        \A i \in 1..Len(data) : Len(data[i].key) <= n

\* f" {header:>{longest_header}} : {value}"
detail_row_left(header, value, longest) ==
    <<" ">> \o LJust(header, longest) \o <<" ", ":", " ">> \o FormatValue(value)

detail_row(header, value, longest) ==
    <<" ">> \o RJust(header, longest) \o <<" ", ":", " ">> \o FormatValue(value)

detail_view(data) ==
    IF Len(data) = 0
    THEN Raised("ValueError")      \* max() of an empty sequence
    ELSE LET longest == longest_header(data)
             table_parts ==
                 << <<>> >>
                 \o [i \in 1..Len(data) |->
                        detail_row(data[i].key, data[i].value, longest)]
                 \o << <<NL>> >>
         IN  Returned(Join(<<NL>>, table_parts))

(***************************************************************************)
(* RichReporterRenderer.envs_list                                          *)
(***************************************************************************)
NameWidth == 20

EnvsHeader == <<"#", " ", "c", "o", "n", "d", "a", " ", "e", "n", "v", "i", "r",
                "o", "n", "m", "e", "n", "t", "s", ":">>

under_envs_dir(ctx, prefix) ==
    \E i \in 1..Len(ctx.envs_dirs) : paths_equal(ctx.envs_dirs[i], dirname(prefix))

is_active(ctx, prefix) ==
    ~ctx.active_prefix.isNone /\ prefix = ctx.active_prefix.path

env_row(name, active, prefix) ==
    LJust(name, NameWidth) \o <<" ">> \o active \o <<" ">> \o prefix

disp_env_dirs_first(ctx, prefix) ==
    LET active == IF is_active(ctx, prefix) THEN <<"*">> ELSE <<" ">>
        name == IF under_envs_dir(ctx, prefix) THEN basename(prefix)
                ELSE IF prefix = ctx.root_prefix THEN ROOT_ENV_NAME
                ELSE <<>>
    IN  env_row(name, active, prefix)

disp_env_active_is_root(ctx, prefix) ==
    LET active == IF prefix = ctx.root_prefix THEN <<"*">> ELSE <<" ">>
        name == IF prefix = ctx.root_prefix THEN ROOT_ENV_NAME
                ELSE IF under_envs_dir(ctx, prefix) THEN basename(prefix)
                ELSE <<>>
    IN  env_row(name, active, prefix)

disp_env(ctx, prefix) ==
    LET active == IF is_active(ctx, prefix) THEN <<"*">> ELSE <<" ">>
        name == IF prefix = ctx.root_prefix THEN ROOT_ENV_NAME
                ELSE IF under_envs_dir(ctx, prefix) THEN basename(prefix)
                ELSE <<>>
    IN  env_row(name, active, prefix)

envs_list(ctx, data) ==
    LET output == << <<>>, EnvsHeader, <<"#">> >>
                  \o [i \in 1..Len(data) |-> disp_env(ctx, data[i])]
                  \o << <<NL>> >>
    IN  Returned(Join(<<NL>>, output))

(***************************************************************************)
(* The renderer calls the host makes.                                      *)
(***************************************************************************)
DetailCall(d) ==
    [op |-> "detail_view", details |-> d, prefixes |-> <<>>, ctx |-> NoContext]
EnvsCall(c, l) ==
    [op |-> "envs_list", details |-> <<>>, prefixes |-> l, ctx |-> c]
NoCall ==
    [op |-> "none", details |-> <<>>, prefixes |-> <<>>, ctx |-> NoContext]

RenderCalls ==
    {DetailCall(d) : d \in DetailsPool}
    \cup {EnvsCall(c, l) : c \in Contexts, l \in SeqsUpTo(PrefixPool, MaxEnvs)}

DetailView ==
    /\ call.op = "detail_view"
    /\ ret.kind = "none"
    /\ ret' = detail_view(call.details)
    /\ UNCHANGED <<call, quiet, progs, sink, bars, lastOp>>

EnvsList ==
    /\ call.op = "envs_list"
    /\ ret.kind = "none"
    /\ ret' = envs_list(call.ctx, call.prefixes)
    /\ UNCHANGED <<call, quiet, progs, sink, bars, lastOp>>


(***************************************************************************)
(* rich.progress.Progress: the tasks of each Progress object, by TaskID.   *)
(***************************************************************************)
ProgressIds == {1, 2}

DescriptionPool == { <<"p">>, <<"q">> }

\* the fractions the host reports
FractionPool == {"0.5", "1"}

\* Progress.add_task(description, total=1): the new task, started and visible
new_task(description, total) ==
    [description |-> description, total |-> total, completed |-> "0",
     visible |-> TRUE, stopped |-> FALSE]

\* TaskIDs count from 0: the task with id t is tasks[t + 1]
next_task_id(tasks) == Len(tasks)

add_task(ps, p, description, total) ==
    [ps EXCEPT ![p] = Append(@, new_task(description, total))]

\* Progress.update(task, completed=...)
update_completed(ps, p, t, fraction) ==
    [ps EXCEPT ![p][t + 1].completed = fraction]

\* Progress.update(task, visible=...)
update_visible(ps, p, t, v) ==
    [ps EXCEPT ![p][t + 1].visible = v]

\* Progress.stop_task(task)
stop_task(ps, p, t) ==
    [ps EXCEPT ![p][t + 1].stopped = TRUE]

(***************************************************************************)
(* The progress context managers handed to a progress bar.                 *)
(***************************************************************************)
ProgressCM(p) == [isProgress |-> TRUE, id |-> p]
OtherCM == [isProgress |-> FALSE, id |-> 0]

\* progress_context_managers: None (the default) or a list of distinct objects
NoCMs == [isNone |-> TRUE, items |-> <<>>]
SomeCMs(l) == [isNone |-> FALSE, items |-> l]

CMPool ==
    {NoCMs} \cup
    {SomeCMs(l) : l \in
        {m \in SeqsUpTo({ProgressCM(p) : p \in ProgressIds} \cup {OtherCM}, MaxCMs) :
            \A i, j \in 1..Len(m) : i # j => m[i] # m[j]}}

(***************************************************************************)
(* QuietProgressBar                                                        *)
(***************************************************************************)
\* f"...downloading {description}...\n"
quiet_line(description) ==
    <<".", ".", ".", "d", "o", "w", "n", "l", "o", "a", "d", "i", "n", "g", " ">>
    \o description \o <<".", ".", ".", NL>>

QuietBar(description) ==
    [kind |-> "quiet", description |-> description, progress |-> 0, task |-> 0]

RichBar(description, p, t) ==
    [kind |-> "rich", description |-> description, progress |-> p, task |-> t]

Op(name, b, fraction, description, cms, outcome) ==
    [op |-> name, bar |-> b, fraction |-> fraction, description |-> description,
     cms |-> cms, outcome |-> outcome]

NoOp == Op("none", 0, "0", <<>>, NoCMs, "ok")

\* QuietProgressBar.__init__
QuietProgressBar_init(description, cms) ==
    /\ sink' = Append(sink, quiet_line(description))
    /\ bars' = Append(bars, QuietBar(description))
    /\ lastOp' = Op("progress_bar", Len(bars) + 1, "0", description, cms, "ok")
    /\ UNCHANGED progs

(***************************************************************************)
(* RichProgressBar                                                         *)
(***************************************************************************)
\* the for loop of __init__: the first Progress of the list, 0 when there is none
RECURSIVE find_progress_last(_)
find_progress_last(items) ==
    IF Len(items) = 0 THEN 0
    ELSE IF items[Len(items)].isProgress THEN items[Len(items)].id
    ELSE find_progress_last(SubSeq(items, 1, Len(items) - 1))

RECURSIVE find_progress(_)
find_progress(items) ==
    IF Len(items) = 0 THEN 0
    ELSE IF items[1].isProgress THEN items[1].id
    ELSE find_progress(Tail(items))

\* RichProgressBar.__init__
RichProgressBar_init(description, cms) ==
    IF cms.isNone
    THEN \* iterating None
         /\ lastOp' = Op("progress_bar", 0, "0", description, cms, "TypeError")
         /\ UNCHANGED <<progs, sink, bars>>
    ELSE LET p == find_progress(cms.items)
         IN  IF p = 0
             THEN /\ lastOp' = Op("progress_bar", 0, "0", description, cms, "CondaError")
                  /\ UNCHANGED <<progs, sink, bars>>
             ELSE /\ progs' = add_task(progs, p, description, 1)
                  /\ bars' = Append(bars, RichBar(description, p, next_task_id(progs[p])))
                  /\ lastOp' = Op("progress_bar", Len(bars) + 1, "0", description, cms, "ok")
                  /\ UNCHANGED sink

\* what a call leaves behind: the Progress objects and the output sink
Effect(ps, sk) == [progs |-> ps, sink |-> sk]

\* QuietProgressBar.update_to: pass
quiet_update_to(fraction) == Effect(progs, sink)

\* RichProgressBar.update_to
rich_update_to_never_hides(b, fraction) ==
    Effect(update_completed(progs, bars[b].progress, bars[b].task, fraction), sink)

rich_update_to(b, fraction) ==
    LET p == bars[b].progress
        t == bars[b].task
        done == update_completed(progs, p, t, fraction)
    IN  Effect(IF fraction = "1" THEN update_visible(done, p, t, FALSE) ELSE done, sink)

\* QuietProgressBar.close: pass
quiet_close_writes == Effect(progs, Append(sink, <<"d", "o", "n", "e", NL>>))

quiet_close == Effect(progs, sink)

\* RichProgressBar.close
rich_close_stops_all(b) ==
    Effect([progs EXCEPT ![bars[b].progress] =
                [t \in 1..Len(@) |-> [@[t] EXCEPT !.stopped = TRUE]]], sink)

rich_close(b) == Effect(stop_task(progs, bars[b].progress, bars[b].task), sink)

\* QuietProgressBar.refresh: pass
quiet_refresh == Effect(progs, sink)

\* RichProgressBar.refresh: Progress.refresh() redraws the live display and
\* changes no task
rich_refresh(b) == Effect(progs, sink)

(***************************************************************************)
(* The operations the host drives.                                         *)
(***************************************************************************)
\* RichReporterRenderer.progress_bar
ProgressBar_inverted(description, cms) ==
    /\ Len(bars) < MaxBars
    /\ IF ~quiet
       THEN QuietProgressBar_init(description, cms)
       ELSE RichProgressBar_init(description, cms)
    /\ UNCHANGED <<call, ret, quiet>>

ProgressBar(description, cms) ==
    /\ Len(bars) < MaxBars
    /\ IF quiet
       THEN QuietProgressBar_init(description, cms)
       ELSE RichProgressBar_init(description, cms)
    /\ UNCHANGED <<call, ret, quiet>>

\* bar.update_to(fraction), dispatched on the bar's class
UpdateTo(b, fraction) ==
    LET e == IF bars[b].kind = "quiet" THEN quiet_update_to(fraction)
             ELSE rich_update_to(b, fraction)
    IN  /\ progs' = e.progs
        /\ sink' = e.sink
        /\ lastOp' = Op("update_to", b, fraction, bars[b].description, NoCMs, "ok")
        /\ UNCHANGED <<call, ret, quiet, bars>>

\* bar.refresh()
Refresh(b) ==
    LET e == IF bars[b].kind = "quiet" THEN quiet_refresh ELSE rich_refresh(b)
    IN  /\ progs' = e.progs
        /\ sink' = e.sink
        /\ lastOp' = Op("refresh", b, "0", bars[b].description, NoCMs, "ok")
        /\ UNCHANGED <<call, ret, quiet, bars>>

\* bar.close()
Close(b) ==
    LET e == IF bars[b].kind = "quiet" THEN quiet_close ELSE rich_close(b)
    IN  /\ progs' = e.progs
        /\ sink' = e.sink
        /\ lastOp' = Op("close", b, "0", bars[b].description, NoCMs, "ok")
        /\ UNCHANGED <<call, ret, quiet, bars>>

\* the host changes context.quiet between calls
SetQuiet(q) ==
    /\ quiet # q
    /\ quiet' = q
    /\ lastOp' = Op("set_quiet", 0, "0", <<>>, NoCMs, "ok")
    /\ UNCHANGED <<call, ret, progs, sink, bars>>

(***************************************************************************)
(* The specifications.                                                     *)
(***************************************************************************)
InitBars ==
    /\ progs = [p \in ProgressIds |-> <<>>]
    /\ sink = <<>>
    /\ bars = <<>>
    /\ lastOp = NoOp

\* the progress bars, driven by the host
Init ==
    /\ call = NoCall
    /\ ret = NoRet
    /\ quiet \in BOOLEAN
    /\ InitBars

Next ==
    \/ \E d \in DescriptionPool, cms \in CMPool : ProgressBar(d, cms)
    \/ \E b \in 1..Len(bars), f \in FractionPool : UpdateTo(b, f)
    \/ \E b \in 1..Len(bars) : Refresh(b)
    \/ \E b \in 1..Len(bars) : Close(b)
    \/ \E q \in BOOLEAN : SetQuiet(q)

Spec == Init /\ [][Next]_vars

\* one renderer call on host data
InitRender ==
    /\ call \in RenderCalls
    /\ ret = NoRet
    /\ quiet = FALSE
    /\ InitBars

NextRender == DetailView \/ EnvsList

SpecRender == InitRender /\ [][NextRender]_vars

(***************************************************************************)
(* Reading a rendered string back: its lines, and the fields of a row.     *)
(***************************************************************************)
RetLines == Split(ret.val, NL)

EnvsReturned == call.op = "envs_list" /\ ret.kind = "return"

DetailReturned == call.op = "detail_view" /\ ret.kind = "return"

\* the listing is the three header lines, one row per prefix, and the blank tail
EnvsShape ==
    /\ Len(RetLines) = Len(call.prefixes) + 5
    /\ RetLines[1] = <<>>
    /\ RetLines[2] = EnvsHeader
    /\ RetLines[3] = <<"#">>
    /\ RetLines[Len(RetLines) - 1] = <<>>
    /\ RetLines[Len(RetLines)] = <<>>

EnvRow(i) == RetLines[3 + i]

\* a row ends with " <marker> <prefix>"
RowMarker(i) == EnvRow(i)[Len(EnvRow(i)) - Len(call.prefixes[i]) - 1]

RowPrefix(i) ==
    SubSeq(EnvRow(i), Len(EnvRow(i)) - Len(call.prefixes[i]) + 1, Len(EnvRow(i)))

\* what precedes " <marker> <prefix>": the name in its field
RowNameField(i) == SubSeq(EnvRow(i), 1, Len(EnvRow(i)) - Len(call.prefixes[i]) - 3)

RECURSIVE RStripSpaces(_)
RStripSpaces(s) ==
    IF Len(s) > 0 /\ s[Len(s)] = " " THEN RStripSpaces(SubSeq(s, 1, Len(s) - 1)) ELSE s

MarkedRows == {i \in 1..Len(call.prefixes) : RowMarker(i) = "*"}

ActiveRows ==
    {i \in 1..Len(call.prefixes) :
        ~call.ctx.active_prefix.isNone /\ call.prefixes[i] = call.ctx.active_prefix.path}

\* C1, as stated: for every list of prefixes and every active prefix, the listing
\* has exactly one row marked '*', that row is the active prefix's, and every
\* other row carries the blank marker.
C1_ExactlyOneRowMarked ==
    EnvsReturned =>
        /\ EnvsShape
        /\ Cardinality(MarkedRows) = 1
        /\ MarkedRows = ActiveRows
        /\ \A i \in 1..Len(call.prefixes) : i \notin MarkedRows => RowMarker(i) = " "

\* C1, amended: a row is marked '*' exactly when its prefix equals the active
\* prefix and carries the blank marker otherwise; so a list that holds the active
\* prefix exactly once has exactly one marked row, the active prefix's.
C1_MarkedRowsAreTheActivePrefix ==
    EnvsReturned =>
        /\ EnvsShape
        /\ MarkedRows = ActiveRows
        /\ \A i \in 1..Len(call.prefixes) : i \notin MarkedRows => RowMarker(i) = " "
        /\ Cardinality(ActiveRows) = 1 => Cardinality(MarkedRows) = 1

C1_Witness ==
    /\ EnvsReturned
    /\ Len(call.prefixes) = 2
    /\ Cardinality(ActiveRows) = 1
    /\ RowMarker(2) = "*"
    /\ RowMarker(1) = " "

\* the name the claim gives a prefix
ClaimedName(ctx, prefix) ==
    IF prefix = ctx.root_prefix THEN ROOT_ENV_NAME
    ELSE IF \E i \in 1..Len(ctx.envs_dirs) :
                abspath(ctx.envs_dirs[i]) = abspath(dirname(prefix))
         THEN basename(prefix)
    ELSE <<>>

\* C2: the listing has one row per input prefix, in input order, and the name of
\* each row is the root name for the root prefix (also when it lies in an
\* environments directory), the base name for any other prefix whose parent is a
\* configured environments directory, and empty for the rest.
C2_DisplayNames ==
    EnvsReturned =>
        /\ EnvsShape
        /\ \A i \in 1..Len(call.prefixes) :
              /\ RowPrefix(i) = call.prefixes[i]
              /\ EnvRow(i)[Len(EnvRow(i)) - Len(call.prefixes[i])] = " "
              /\ EnvRow(i)[Len(EnvRow(i)) - Len(call.prefixes[i]) - 2] = " "
              /\ Len(RowNameField(i)) >= NameWidth
              /\ RStripSpaces(RowNameField(i)) = ClaimedName(call.ctx, call.prefixes[i])

C2_Witness ==
    /\ EnvsReturned
    /\ Len(call.prefixes) = 2
    /\ call.prefixes[1] = call.ctx.root_prefix
    /\ under_envs_dir(call.ctx, call.prefixes[1])
    /\ RStripSpaces(RowNameField(1)) = ROOT_ENV_NAME
    /\ call.prefixes[2] # call.ctx.root_prefix
    /\ RStripSpaces(RowNameField(2)) = basename(call.prefixes[2])
    /\ basename(call.prefixes[2]) # <<>>

HasLineBreak(s) == \E i \in 1..Len(s) : s[i] = NL

NoLineBreaks ==
    \A i \in 1..Len(call.details) :
        /\ ~HasLineBreak(call.details[i].key)
        /\ ~HasLineBreak(FormatValue(call.details[i].value))

LongestKey ==
    CHOOSE n \in 0..100 :
        /\ \A i \in 1..Len(call.details) : Len(call.details[i].key) <= n
        /\ \E i \in 1..Len(call.details) : Len(call.details[i].key) = n

\* one line per key, in mapping order; in each the key ends in the column of the
\* longest key, only spaces precede it, and " : " and the value follow
DetailLayout ==
    /\ Len(RetLines) = Len(call.details) + 3
    /\ RetLines[1] = <<>>
    /\ RetLines[Len(RetLines) - 1] = <<>>
    /\ RetLines[Len(RetLines)] = <<>>
    /\ \A i \in 1..Len(call.details) :
          LET line == RetLines[1 + i]
              key == call.details[i].key
              w == LongestKey
          IN  /\ Len(line) >= w + 4
              /\ \A j \in 1..(1 + w - Len(key)) : line[j] = " "
              /\ SubSeq(line, 2 + w - Len(key), 1 + w) = key
              /\ SubSeq(line, w + 2, w + 4) = <<" ", ":", " ">>
              /\ SubSeq(line, w + 5, Len(line)) = FormatValue(call.details[i].value)

\* C3, as stated: for every details mapping the returned string has one line per
\* key in mapping order, the key right-aligned to the width of the longest key
\* and followed by ':', which is in the same column on every line.
C3_OneAlignedLinePerKey == DetailReturned => DetailLayout

\* C3, amended: the same, for every details mapping whose keys and values
\* contain no line break.
C3_AlignedWhenSingleLine == (DetailReturned /\ NoLineBreaks) => DetailLayout

C3_Witness ==
    /\ DetailReturned
    /\ NoLineBreaks
    /\ Len(call.details) = 2
    /\ Len(call.details[1].key) < Len(call.details[2].key)
    /\ RetLines[2][LongestKey + 3] = ":"
    /\ RetLines[3][LongestKey + 3] = ":"

\* C7: detail_view and envs_list return a string for every input, the empty
\* mapping and the empty list included.
C7_RendererNeverFails ==
    (call.op \in {"detail_view", "envs_list"} /\ ret.kind # "none") => ret.kind = "return"

(***************************************************************************)
(* The progress bars.                                                      *)
(***************************************************************************)
\* the step just taken was this operation, on this kind of bar
Did(name) == lastOp'.op = name

OnBarOfKind(kind) == lastOp'.bar \in 1..Len(bars) /\ bars[lastOp'.bar].kind = kind

LineBreaksOf(s) == {i \in 1..Len(s) : s[i] = NL}

QuietBars == {b \in 1..Len(bars) : bars[b].kind = "quiet"}

RichBars == {b \in 1..Len(bars) : bars[b].kind = "rich"}

TaskOf(ps, b) == ps[bars[b].progress][bars[b].task + 1]

\* C5: update_to on the interactive bar with fraction 1 leaves the bar's task not
\* visible with completed 1; with any other fraction it sets completed and does
\* not change the task's visibility.
C5_FractionOneHides ==
    [][(Did("update_to") /\ OnBarOfKind("rich")) =>
          LET b == lastOp'.bar
              f == lastOp'.fraction
          IN  /\ TaskOf(progs', b).completed = f
              /\ f = "1" => ~TaskOf(progs', b).visible
              /\ f # "1" => TaskOf(progs', b).visible = TaskOf(progs, b).visible]_vars

C5_Witness ==
    /\ lastOp.op = "update_to"
    /\ lastOp.fraction = "1"
    /\ bars[lastOp.bar].kind = "rich"
    /\ ~TaskOf(progs, lastOp.bar).visible
    /\ TaskOf(progs, lastOp.bar).completed = "1"

HasProgress(cms) ==
    ~cms.isNone /\ \E i \in 1..Len(cms.items) : cms.items[i].isProgress

\* C6: constructing the interactive bar with no Progress among the context
\* managers, or with no context managers at all, fails with CondaError and
\* registers no task.
C6_MissingContextIsCondaError ==
    [][(Did("progress_bar") /\ ~quiet /\ ~HasProgress(lastOp'.cms)) =>
          /\ lastOp'.outcome = "CondaError"
          /\ progs' = progs
          /\ bars' = bars]_vars

\* C8: progress_bar picks the class from context.quiet as it is at the call: a
\* quiet bar when set, which touches no Progress and raises nothing, and the
\* interactive bar when not; both are built from the given description.
C8_QuietFlagPicksTheBar ==
    [][Did("progress_bar") =>
          IF quiet
          THEN /\ lastOp'.outcome = "ok"
               /\ bars' = Append(bars, QuietBar(lastOp'.description))
               /\ progs' = progs
               /\ Len(sink') = Len(sink) + 1
          ELSE /\ sink' = sink
               /\ IF HasProgress(lastOp'.cms)
                  THEN /\ lastOp'.outcome = "ok"
                       /\ Len(bars') = Len(bars) + 1
                       /\ SubSeq(bars', 1, Len(bars)) = bars
                       /\ bars'[Len(bars')].kind = "rich"
                       /\ bars'[Len(bars')].description = lastOp'.description
                  ELSE /\ lastOp'.outcome # "ok"
                       /\ bars' = bars]_vars

C8_Witness ==
    /\ lastOp.op = "progress_bar"
    /\ quiet
    /\ ~HasProgress(lastOp.cms)
    /\ Len(bars) = 2
    /\ bars[1].kind = "rich"
    /\ bars[2].kind = "quiet"

\* the position of the first Progress of a list that has one
FirstProgressAt(items) ==
    CHOOSE i \in 1..Len(items) :
        items[i].isProgress /\ \A j \in 1..(i - 1) : ~items[j].isProgress

\* C9: given a list with a Progress, the interactive bar binds to the first
\* Progress of the list and registers exactly one task on it, with the given
\* description and total 1; nothing else changes.
C9_BindsToFirstProgress ==
    [][(Did("progress_bar") /\ ~quiet /\ HasProgress(lastOp'.cms)) =>
          LET items == lastOp'.cms.items
              p == items[FirstProgressAt(items)].id
              bar == bars'[Len(bars')]
          IN  /\ bar.kind = "rich"
              /\ bar.progress = p
              /\ bar.task = Len(progs[p])
              /\ Len(progs'[p]) = Len(progs[p]) + 1
              /\ SubSeq(progs'[p], 1, Len(progs[p])) = progs[p]
              /\ progs'[p][Len(progs'[p])].description = lastOp'.description
              /\ progs'[p][Len(progs'[p])].total = 1
              /\ \A q \in ProgressIds \ {p} : progs'[q] = progs[q]
              /\ sink' = sink]_vars

C9_Witness ==
    /\ lastOp.op = "progress_bar"
    /\ lastOp.outcome = "ok"
    /\ Len(lastOp.cms.items) = 2
    /\ lastOp.cms.items[1].isProgress
    /\ lastOp.cms.items[2].isProgress
    /\ lastOp.cms.items[1].id # lastOp.cms.items[2].id
    /\ bars[lastOp.bar].kind = "rich"
    /\ bars[lastOp.bar].progress = lastOp.cms.items[1].id
    /\ Len(progs[lastOp.cms.items[2].id]) = 0

\* C10: interactive bars on one Progress own distinct tasks, and update_to and
\* close on a bar change that bar's task only.
C10_BarsOwnTheirTasks ==
    /\ [](\A a, b \in RichBars :
            a # b => <<bars[a].progress, bars[a].task>> # <<bars[b].progress, bars[b].task>>)
    /\ [][(Did("update_to") \/ Did("close")) =>
             \A p \in ProgressIds :
                /\ Len(progs'[p]) = Len(progs[p])
                /\ \A t \in 1..Len(progs[p]) :
                      (OnBarOfKind("rich")
                          /\ bars[lastOp'.bar].progress = p
                          /\ bars[lastOp'.bar].task + 1 = t)
                      \/ progs'[p][t] = progs[p][t]]_vars

C10_Witness ==
    /\ Len(bars) = 2
    /\ bars[1].kind = "rich"
    /\ bars[2].kind = "rich"
    /\ bars[1].progress = bars[2].progress
    /\ lastOp.op = "update_to"
    /\ lastOp.bar = 1
    /\ lastOp.fraction = "1"
    /\ ~TaskOf(progs, 1).visible
    /\ TaskOf(progs, 2).visible
    /\ TaskOf(progs, 2).stopped
    /\ ~TaskOf(progs, 1).stopped

====
